---- MODULE Spec2Model ----
(***************************************************************************)
(* A model of uptane_banners.print_banner and uptane_sounds.play.          *)
(*                                                                         *)
(* A string is a sequence of one-character strings; a colour escape        *)
(* sequence is one element of such a sequence (it takes no column).  The   *)
(* terminal is the log `term` of the effects a call had on it: the size    *)
(* query, the clears, the printed lines and the sleep, in program order.   *)
(***************************************************************************)
EXTENDS Integers, Sequences, FiniteSets, TLC

VARIABLES
  \* print_banner: arguments
  banner_array, show_for, color, color_bg, text,
  \* print_banner: locals
  rows, cols, left_fill, text_array, i, pc, err,
  \* the terminal
  term,
  \* play: environment, arguments, locals, child process, standard output
  environ, fs, sounds, sound_path, blocking, player, cmd, spc, proc, sout, serr

bvars == <<banner_array, show_for, color, color_bg, text,
           rows, cols, left_fill, text_array, i, pc, err, term>>
svars == <<environ, fs, sounds, sound_path, blocking, player, cmd, spc, proc, sout, serr>>
vars  == <<bvars, svars>>

----------------------------------------------------------------------------
(* Bounds of the model *)

MaxRows == 6
MaxSmallCols == 6
MaxWrapWidth == 4
MaxTextLen == 5
MaxPathLen == 2

----------------------------------------------------------------------------
(* Constants of uptane_banners.py *)

RED == "ESC[31m"
GREEN == "ESC[32m"
YELLOW == "ESC[33m"
BLACK_BG == "ESC[40m"
BLUE_BG == "ESC[44m"
WHITE_BG == "ESC[107m"
GRAY_BG == "ESC[100m"
RESET_COLOR == "ESC[0m"

margin_len == 10

Codes == {RED, GREEN, YELLOW, BLACK_BG, BLUE_BG, WHITE_BG, GRAY_BG, RESET_COLOR}

\* An optional argument left at its default (False), or passed empty, is falsy.
Unset == ""

----------------------------------------------------------------------------
(* Strings *)

\* c * n: the empty string when n <= 0
Rep(c, n) == [k \in 1..n |-> c]

Last(s) == s[Len(s)]
Front(s) == SubSeq(s, 1, Len(s) - 1)

RECURSIVE Join(_)
Join(ss) == IF ss = <<>> THEN <<>> ELSE Head(ss) \o Join(Tail(ss))

\* the number of columns a printed line takes: its characters that are no escape code
Visible(line) == Cardinality({k \in 1..Len(line) : line[k] \notin Codes})

\* len(max(banner_array, key=len))
BannerWidth(b) == CHOOSE w \in {Len(b[k]) : k \in 1..Len(b)} :
                     \A k \in 1..Len(b) : Len(b[k]) <= w

\* str.split("\n"): the pieces between the newlines, [""] for the empty string
RECURSIVE SplitLines(_, _)
SplitLines(s, cur) ==
  IF s = <<>> THEN <<cur>>
  ELSE IF Head(s) = "\n" THEN <<cur>> \o SplitLines(Tail(s), <<>>)
  ELSE SplitLines(Tail(s), Append(cur, Head(s)))

----------------------------------------------------------------------------
(* textwrap.wrap(line, width), with TextWrapper's defaults *)

IsSpaceChar(c) == c \in {" ", "\n"}

\* chunk.strip() == ''
IsBlank(chunk) == \A k \in 1..Len(chunk) : IsSpaceChar(chunk[k])

\* _munge_whitespace: every whitespace character becomes a space
Munge(s) == [k \in 1..Len(s) |-> IF IsSpaceChar(s[k]) THEN " " ELSE s[k]]

\* _split: the maximal runs of spaces and of other characters, in order
RECURSIVE SplitChunks(_, _)
SplitChunks(s, cur) ==
  IF s = <<>> THEN (IF cur = <<>> THEN <<>> ELSE <<cur>>)
  ELSE IF cur = <<>> \/ (Last(cur) = " ") = (Head(s) = " ")
       THEN SplitChunks(Tail(s), Append(cur, Head(s)))
       ELSE <<cur>> \o SplitChunks(Tail(s), <<Head(s)>>)

\* the inner loop of _wrap_chunks: chunks are taken while they fit the line
RECURSIVE TakeChunks(_, _, _, _)
TakeChunks(chunks, cur_line, cur_len, width) ==
  IF chunks # <<>> /\ cur_len + Len(Head(chunks)) <= width
  THEN TakeChunks(Tail(chunks), Append(cur_line, Head(chunks)),
                  cur_len + Len(Head(chunks)), width)
  ELSE [chunks |-> chunks, cur_line |-> cur_line, cur_len |-> cur_len]

\* _handle_long_word with break_long_words: the chunk is cut at the space left
HandleLongWord(chunks, cur_line, cur_len, width) ==
  LET space_left == IF width < 1 THEN 1 ELSE width - cur_len
      chunk == Head(chunks)
  IN  [chunks |-> <<SubSeq(chunk, space_left + 1, Len(chunk))>> \o Tail(chunks),
       cur_line |-> Append(cur_line, SubSeq(chunk, 1, space_left))]

\* the outer loop of _wrap_chunks
RECURSIVE WrapChunks(_, _, _)
WrapChunks(chunks, lines, width) ==
  IF chunks = <<>> THEN lines
  ELSE
    LET c1 == IF IsBlank(Head(chunks)) /\ lines # <<>> THEN Tail(chunks) ELSE chunks
        t  == TakeChunks(c1, <<>>, 0, width)
        h  == IF t.chunks # <<>> /\ Len(Head(t.chunks)) > width
              THEN HandleLongWord(t.chunks, t.cur_line, t.cur_len, width)
              ELSE [chunks |-> t.chunks, cur_line |-> t.cur_line]
        cl == IF h.cur_line # <<>> /\ IsBlank(Last(h.cur_line))
              THEN Front(h.cur_line) ELSE h.cur_line
    IN  WrapChunks(h.chunks,
                   IF cl # <<>> THEN Append(lines, Join(cl)) ELSE lines,
                   width)

\* textwrap.wrap raises ValueError("invalid width") when width <= 0
WrapRaises(width) == width <= 0

Wrap(line, width) == WrapChunks(SplitChunks(Munge(line), <<>>), <<>>, width)

----------------------------------------------------------------------------
(* print_banner: what it computes *)

\* the truth value of the text argument: False, "" and [] are falsy
Truthy(t) == t.kind # "none" /\ t.val # <<>>

\* text = text.split("\n") unless text is a list
TextLines(t) == IF t.kind = "list" THEN t.val ELSE SplitLines(t.val, <<>>)

\* a variant that leaves one margin only
WrapWidth_OneMargin(c) == c - margin_len

\* the width the caption is wrapped to and centred in
WrapWidth(c) == c - 2 * margin_len

\* text_array += textwrap.wrap(line, cols - 2 * margin_len), for line in text
RECURSIVE WrapAll(_, _)
WrapAll(lines, width) ==
  IF lines = <<>> THEN <<>>
  ELSE Wrap(Head(lines), width) \o WrapAll(Tail(lines), width)

LeftFill(banner_width, c) ==
  IF banner_width = c THEN 0 ELSE (c - banner_width) \div 2

\* a variant that forgets the left padding
RightFill_ForgetsLeft(c, lf, line) == c - Len(line)

RightFill(c, lf, line) == c - lf - Len(line)

\* a variant that prepends color_bg first, and color in front of it
ColorPrefix_ForegroundFirst(fg, bg) ==
  LET o1 == IF bg # Unset THEN <<bg>> ELSE <<>>
  IN  IF fg # Unset THEN <<fg>> \o o1 ELSE o1

\* the colour codes are prepended one after the other: color, then color_bg
ColorPrefix(fg, bg) ==
  LET o1 == IF fg # Unset THEN <<fg>> ELSE <<>>
  IN  IF bg # Unset THEN <<bg>> \o o1 ELSE o1

BannerOutput(line, c, lf, fg, bg) ==
  LET output == Rep(" ", lf) \o line \o Rep(" ", RightFill(c, lf, line))
  IN  ColorPrefix(fg, bg) \o output
        \o (IF fg # Unset \/ bg # Unset THEN <<RESET_COLOR>> ELSE <<>>)

\* "{output:^{width}}": centred, the odd space on the right
Center(s, width) ==
  IF Len(s) >= width THEN s
  ELSE LET l == (width - Len(s)) \div 2
       IN  Rep(" ", l) \o s \o Rep(" ", width - Len(s) - l)

CaptionOutput(line, c, bg) ==
  LET margin == IF bg # Unset
                THEN <<bg>> \o Rep(" ", margin_len) \o <<RESET_COLOR>>
                ELSE Rep(" ", margin_len)
  IN  margin \o Center(line, WrapWidth(c)) \o margin

FillOutput(c, bg) == <<bg>> \o Rep(" ", c) \o <<RESET_COLOR>>

\* a variant that fills the last row too
FillCount_ToLastRow(r, nbanner, ntext) ==
  LET n == r - (nbanner + ntext) IN IF n > 0 THEN n ELSE 0

\* range(rows - (len(banner_array) + len(text_array)) - 1)
FillCount(r, nbanner, ntext) ==
  LET n == r - (nbanner + ntext) - 1 IN IF n > 0 THEN n ELSE 0

----------------------------------------------------------------------------
(* The terminal's effects *)

Queried == [ev |-> "size", at |-> "", line |-> <<>>, secs |-> 0]
Cleared == [ev |-> "clear", at |-> "", line |-> <<>>, secs |-> 0]
Slept(d) == [ev |-> "sleep", at |-> "", line |-> <<>>, secs |-> d]
Printed(at, line) == [ev |-> "print", at |-> at, line |-> line, secs |-> 0]

----------------------------------------------------------------------------
(* The calls the model makes *)

\* banners as load_banner returns them: the lines of a file, split at "\n"
Banners ==
  { << <<"#","#","#","#">>, <<"#"," "," ","#">>, <<"#","#","#","#">> >>,
    << <<"#","#">>, <<"#">>, <<>> >>,
    << <<"#","#">> >>,
    << <<"#">>, <<"#","#","#">>, <<"#">>, <<"#","#","#","#","#">>, <<"#">> >>,
    << Rep("#", 2 * margin_len + 2), <<"#">> >> }

Str(s) == [kind |-> "str", val |-> s]
List(l) == [kind |-> "list", val |-> l]
NoText == [kind |-> "none", val |-> <<>>]

Captions ==
  { NoText,
    Str(<<>>),
    List(<<>>),
    Str(<<"a","a"," ","a","\n","a","a","a","a","a","a">>),
    Str(<<"a","a","a","a","a","a","a","a","a">>),
    Str(<<" "," ">>),
    List(<< <<"a"," ","a">>, <<>> >>),
    List(<< <<" ","a"," "," ","a","a"," ">>, <<"a","\n","a">>, <<"a">> >>) }

\* every string of letters, spaces and newlines of at most MaxTextLen characters
ShortStrings == UNION {[1..n -> {"a", " ", "\n"}] : n \in 0..MaxTextLen}

\* the calls: every option with every banner and a few captions, and every short
\* caption under a one-line banner
Calls ==
  [banner : Banners, hold : {0, 3}, fg : {Unset, RED}, bg : {Unset, BLUE_BG},
   text : Captions]
  \cup
  [banner : {<< <<"#","#">> >>}, hold : {0}, fg : {Unset}, bg : {Unset, GRAY_BG},
   text : {Str(s) : s \in ShortStrings}]

\* the terminal sizes `stty size` answers with: narrower than the banners, around
\* twice the margin, and the 40 columns of the documented example
RowsSet == 1..MaxRows
ColsSet == (1..MaxSmallCols)
             \cup ((2 * margin_len - 1)..(2 * margin_len + MaxWrapWidth))
             \cup {40}

----------------------------------------------------------------------------
(* play is not running *)

SoundIdle ==
  /\ environ = [has_PATH |-> FALSE, PATH |-> <<>>]
  /\ fs = <<>> /\ sounds = {}
  /\ sound_path = "" /\ blocking = FALSE /\ player = "" /\ cmd = <<>>
  /\ spc = "idle" /\ proc = "none" /\ sout = <<>> /\ serr = "none"

----------------------------------------------------------------------------
(* print_banner(banner_array, show_for, color, color_bg, text) *)

Init ==
  /\ \E call \in Calls :
       /\ banner_array = call.banner
       /\ show_for = call.hold
       /\ color = call.fg
       /\ color_bg = call.bg
       /\ text = call.text
  /\ rows = 0 /\ cols = 0 /\ left_fill = 0
  /\ text_array = <<>> /\ i = 0
  /\ pc = "start" /\ err = "none"
  /\ term = <<>>
  /\ SoundIdle

args == <<banner_array, show_for, color, color_bg, text>>

\* rows, cols = get_screen_size()
GetScreenSize ==
  /\ pc = "start"
  /\ \E r \in RowsSet, c \in ColsSet : rows' = r /\ cols' = c
  /\ term' = Append(term, Queried)
  /\ pc' = "width"
  /\ UNCHANGED <<args, left_fill, text_array, i, err, svars>>

\* a variant that clears the screen before it checks the width
CheckWidth_ClearFirst ==
  /\ pc = "width"
  /\ term' = Append(term, Cleared)
  /\ IF BannerWidth(banner_array) > cols
     THEN /\ pc' = "raised" /\ err' = "width"
          /\ UNCHANGED left_fill
     ELSE /\ pc' = "clear"
          /\ left_fill' = LeftFill(BannerWidth(banner_array), cols)
          /\ UNCHANGED err
  /\ UNCHANGED <<args, rows, cols, text_array, i, svars>>

\* the width check and left_fill
CheckWidth ==
  /\ pc = "width"
  /\ IF BannerWidth(banner_array) > cols
     THEN /\ pc' = "raised" /\ err' = "width"
          /\ UNCHANGED left_fill
     ELSE /\ pc' = "clear"
          /\ left_fill' = LeftFill(BannerWidth(banner_array), cols)
          /\ UNCHANGED err
  /\ UNCHANGED <<args, rows, cols, text_array, i, term, svars>>

\* clear_screen()
ClearScreen ==
  /\ pc = "clear"
  /\ term' = Append(term, Cleared)
  /\ pc' = "banner" /\ i' = 1
  /\ UNCHANGED <<args, rows, cols, left_fill, text_array, err, svars>>

\* for line in banner_array: ... print(output)
PrintBannerLine ==
  /\ pc = "banner" /\ i <= Len(banner_array)
  /\ term' = Append(term, Printed("banner",
                 BannerOutput(banner_array[i], cols, left_fill, color, color_bg)))
  /\ i' = i + 1
  /\ UNCHANGED <<args, rows, cols, left_fill, text_array, pc, err, svars>>

\* the banner is printed; if text: split, wrap, check the height
WrapText ==
  /\ pc = "banner" /\ i > Len(banner_array)
  /\ IF ~Truthy(text)
     THEN /\ pc' = "fill" /\ i' = 0
          /\ UNCHANGED <<text_array, err>>
     ELSE IF WrapRaises(WrapWidth(cols))
     THEN /\ pc' = "raised" /\ err' = "ValueError"
          /\ UNCHANGED <<text_array, i>>
     ELSE LET wrapped == WrapAll(TextLines(text), WrapWidth(cols))
          IN  /\ text_array' = wrapped
              /\ IF Len(banner_array) + Len(wrapped) > rows
                 THEN /\ pc' = "raised" /\ err' = "height"
                      /\ UNCHANGED i
                 ELSE /\ pc' = "caption" /\ i' = 1
                      /\ UNCHANGED err
  /\ UNCHANGED <<args, rows, cols, left_fill, term, svars>>

\* for output in text_array: ... print(output)
PrintCaptionLine ==
  /\ pc = "caption" /\ i <= Len(text_array)
  /\ term' = Append(term, Printed("caption",
                 CaptionOutput(text_array[i], cols, color_bg)))
  /\ i' = i + 1
  /\ UNCHANGED <<args, rows, cols, left_fill, text_array, pc, err, svars>>

EndCaption ==
  /\ pc = "caption" /\ i > Len(text_array)
  /\ pc' = "fill" /\ i' = 0
  /\ UNCHANGED <<args, rows, cols, left_fill, text_array, err, term, svars>>

\* if color_bg: for i in range(...): print(color_bg + cols * " " + RESET_COLOR)
FillBottom ==
  /\ pc = "fill" /\ color_bg # Unset
  /\ i < FillCount(rows, Len(banner_array), Len(text_array))
  /\ term' = Append(term, Printed("fill", FillOutput(cols, color_bg)))
  /\ i' = i + 1
  /\ UNCHANGED <<args, rows, cols, left_fill, text_array, pc, err, svars>>

\* a variant that clears again without sleeping
Hold_NoSleep ==
  /\ pc = "fill"
  /\ ~(color_bg # Unset /\ i < FillCount(rows, Len(banner_array), Len(text_array)))
  /\ pc' = (IF show_for # 0 THEN "clear_again" ELSE "done")
  /\ UNCHANGED <<args, rows, cols, left_fill, text_array, i, err, term, svars>>

\* if show_for: time.sleep(show_for)
Hold ==
  /\ pc = "fill"
  /\ ~(color_bg # Unset /\ i < FillCount(rows, Len(banner_array), Len(text_array)))
  /\ IF show_for # 0
     THEN /\ term' = Append(term, Slept(show_for))
          /\ pc' = "clear_again"
     ELSE /\ pc' = "done"
          /\ UNCHANGED term
  /\ UNCHANGED <<args, rows, cols, left_fill, text_array, i, err, svars>>

\* clear_screen(), after the sleep
ClearAgain ==
  /\ pc = "clear_again"
  /\ term' = Append(term, Cleared)
  /\ pc' = "done"
  /\ UNCHANGED <<args, rows, cols, left_fill, text_array, i, err, svars>>

Next ==
  \/ GetScreenSize
  \/ CheckWidth
  \/ ClearScreen
  \/ PrintBannerLine
  \/ WrapText
  \/ PrintCaptionLine
  \/ EndCaption
  \/ FillBottom
  \/ Hold
  \/ ClearAgain

Spec == Init /\ [][Next]_vars

----------------------------------------------------------------------------
(* uptane_sounds.py *)

TADA == "sounds/tada.wav"
ICE == "sounds/ice.wav"

\* the players play tries, in the order it tries them
Players == <<"omxplayer", "afplay">>

NotFound == "Sound not found."
NoPlayer == "No player found on this platform."

\* the directories PATH may name; in each, a command is no file ("none"), a file
\* that may not be executed ("file"), or an executable file ("exec")
Dirs == {"/usr/bin", "/opt/bin"}
Kinds == {"none", "file", "exec"}

RECURSIVE SeqsUpTo(_, _)
SeqsUpTo(S, n) ==
  IF n = 0 THEN {<<>>}
  ELSE LET shorter == SeqsUpTo(S, n - 1)
       IN  shorter \cup {Append(q, x) : q \in shorter, x \in S}

\* os.environ: PATH is set to a list of at least one directory, or not set
Environs ==
  {[has_PATH |-> FALSE, PATH |-> <<>>]}
    \cup {[has_PATH |-> TRUE, PATH |-> q] : q \in SeqsUpTo(Dirs, MaxPathLen) \ {<<>>}}

\* _on_path(cmd), PATH being set: some directory of PATH holds cmd as an
\* executable file
OnPath(c) ==
  \E k \in 1..Len(environ.PATH) : fs[<<environ.PATH[k], c>>] = "exec"

\* os.path.isfile(sound_path)
IsFile(path) == path \in sounds

BannerIdle ==
  /\ banner_array = <<>> /\ show_for = 0 /\ color = Unset /\ color_bg = Unset
  /\ text = NoText /\ rows = 0 /\ cols = 0 /\ left_fill = 0
  /\ text_array = <<>> /\ i = 0 /\ pc = "idle" /\ err = "none" /\ term = <<>>

InitSound ==
  /\ environ \in Environs
  /\ fs \in [Dirs \X {Players[1], Players[2]} -> Kinds]
  /\ sounds \in SUBSET {TADA, ICE}
  /\ sound_path = "" /\ blocking = FALSE /\ player = "" /\ cmd = <<>>
  /\ spc = "idle" /\ proc = "none" /\ sout = <<>> /\ serr = "none"
  /\ BannerIdle

world == <<environ, fs, sounds>>

\* play(sound_path, blocking)
Play ==
  /\ spc = "idle"
  /\ sound_path' \in {TADA, ICE}
  /\ blocking' \in BOOLEAN
  /\ spc' = "check_file"
  /\ UNCHANGED <<world, player, cmd, proc, sout, serr, bvars>>

\* if not os.path.isfile(sound_path): print(...); return
CheckFile ==
  /\ spc = "check_file"
  /\ IF ~IsFile(sound_path)
     THEN /\ sout' = Append(sout, NotFound)
          /\ spc' = "returned"
     ELSE /\ spc' = "find_player"
          /\ UNCHANGED sout
  /\ UNCHANGED <<world, sound_path, blocking, player, cmd, proc, serr, bvars>>

\* the search for a player; os.environ["PATH"] raises KeyError when PATH is not set
FindPlayer ==
  /\ spc = "find_player"
  /\ IF ~environ.has_PATH
     THEN /\ spc' = "raised" /\ serr' = "KeyError"
          /\ UNCHANGED <<player, sout>>
     ELSE IF OnPath(Players[1])
     THEN /\ player' = Players[1] /\ spc' = "spawn"
          /\ UNCHANGED <<sout, serr>>
     ELSE IF OnPath(Players[2])
     THEN /\ player' = Players[2] /\ spc' = "spawn"
          /\ UNCHANGED <<sout, serr>>
     ELSE /\ sout' = Append(sout, NoPlayer)
          /\ spc' = "returned"
          /\ UNCHANGED <<player, serr>>
  /\ UNCHANGED <<world, sound_path, blocking, cmd, proc, bvars>>

\* proc = Popen([player, sound_path], stdout=PIPE, stderr=PIPE)
Spawn ==
  /\ spc = "spawn"
  /\ cmd' = <<player, sound_path>>
  /\ proc' = "running"
  /\ spc' = "spawned"
  /\ UNCHANGED <<world, sound_path, blocking, player, sout, serr, bvars>>

\* a variant that never waits for the child
Return_NoWait ==
  /\ spc = "spawned"
  /\ spc' = "returned"
  /\ UNCHANGED <<world, sound_path, blocking, player, cmd, proc, sout, serr, bvars>>

\* if blocking: proc.wait(); then play returns
Return ==
  /\ spc = "spawned"
  /\ blocking => proc = "exited"
  /\ spc' = "returned"
  /\ UNCHANGED <<world, sound_path, blocking, player, cmd, proc, sout, serr, bvars>>

\* the player ends
ChildExit ==
  /\ proc = "running"
  /\ proc' = "exited"
  /\ UNCHANGED <<world, sound_path, blocking, player, cmd, spc, sout, serr, bvars>>

NextSound ==
  \/ Play
  \/ CheckFile
  \/ FindPlayer
  \/ Spawn
  \/ Return
  \/ ChildExit

SpecSound == InitSound /\ [][NextSound]_vars

----------------------------------------------------------------------------
(* What the claims speak of *)

NotCode(c) == c \notin Codes
StripCodes(line) == SelectSeq(line, NotCode)
CodeAt(line) == {k \in 1..Len(line) : line[k] \in Codes}

PrintsAt(at) == {k \in 1..Len(term) : term[k].ev = "print" /\ term[k].at = at}
Prints == {k \in 1..Len(term) : term[k].ev = "print"}
NoOutput == \A k \in 1..Len(term) : term[k].ev \notin {"clear", "print"}

PrintRank(at) == CASE at = "banner" -> 1 [] at = "caption" -> 2 [] OTHER -> 3

\* the example of the documentation
ExampleBanner == << <<"#","#","#","#">>, <<"#"," "," ","#">>, <<"#","#","#","#">> >>

\* C1: a banner wider than the terminal's columns makes print_banner raise the
\* width error, and that call neither clears the screen nor writes a line.
C1_TooWideRaisesUndrawn ==
  (pc \notin {"start", "width"} /\ BannerWidth(banner_array) > cols)
    => (pc = "raised" /\ err = "width" /\ NoOutput)

C1_Witness ==
  /\ pc = "raised" /\ err = "width"
  /\ BannerWidth(banner_array) = cols + 1
  /\ term = <<Queried>>

\* C2: when the height error is raised, no banner line and no caption line has
\* been written by that call.
C2_HeightErrorBeforeOutput ==
  (pc = "raised" /\ err = "height") => Prints = {}

\* C3: with W <= C, each banner line is written as leftPadding spaces, the line,
\* and C - leftPadding - length spaces, leftPadding being 0 if W = C and
\* floor((C - W) / 2) otherwise, so it takes exactly C columns.
C3_BannerLinesPadded ==
  \A k \in PrintsAt("banner") :
    LET W == BannerWidth(banner_array)
        leftPadding == IF W = cols THEN 0 ELSE (cols - W) \div 2
        line == banner_array[k - 2]
        shown == StripCodes(term[k].line)
    IN  /\ W <= cols
        /\ shown = Rep(" ", leftPadding) \o line
                     \o Rep(" ", cols - leftPadding - Len(line))
        /\ Len(shown) = cols

C3_Witness ==
  /\ pc = "done" /\ cols = 40 /\ banner_array = ExampleBanner
  /\ left_fill = 18
  /\ \A k \in PrintsAt("banner") : Visible(term[k].line) = 40
  /\ Cardinality(PrintsAt("banner")) = 3

\* C4, as claimed: with both colours set a banner line is the foreground code,
\* the background code, the padded line and one reset code; with one colour set
\* it is that code, the padded line and one reset code; with none, no code.
C4_ForegroundThenBackground ==
  \A k \in PrintsAt("banner") :
    LET line == term[k].line
    IN  IF color # Unset /\ color_bg # Unset
        THEN /\ CodeAt(line) = {1, 2, Len(line)}
             /\ line[1] = color /\ line[2] = color_bg
             /\ Last(line) = RESET_COLOR
        ELSE IF color # Unset \/ color_bg # Unset
        THEN /\ CodeAt(line) = {1, Len(line)}
             /\ line[1] = (IF color # Unset THEN color ELSE color_bg)
             /\ Last(line) = RESET_COLOR
        ELSE CodeAt(line) = {}

\* C4, amended: with both colours set a banner line is the background code, the
\* foreground code, the padded line and one reset code; with one colour set it
\* is that code, the padded line and one reset code; with none, no code.
C4_BackgroundThenForeground ==
  \A k \in PrintsAt("banner") :
    LET line == term[k].line
    IN  IF color # Unset /\ color_bg # Unset
        THEN /\ CodeAt(line) = {1, 2, Len(line)}
             /\ line[1] = color_bg /\ line[2] = color
             /\ Last(line) = RESET_COLOR
        ELSE IF color # Unset \/ color_bg # Unset
        THEN /\ CodeAt(line) = {1, Len(line)}
             /\ line[1] = (IF color # Unset THEN color ELSE color_bg)
             /\ Last(line) = RESET_COLOR
        ELSE CodeAt(line) = {}

C4_Witness ==
  /\ color = RED /\ color_bg = BLUE_BG
  /\ \E k \in PrintsAt("banner") :
       SubSeq(term[k].line, 1, 2) = <<BLUE_BG, RED>>

\* C5: every wrapped caption line is at most C - 2 * margin characters long,
\* margin = 10, a single word longer than that width included.
C5_WrappedLinesFit ==
  \A k \in 1..Len(text_array) : Len(text_array[k]) <= cols - 2 * 10

C5_Witness ==
  /\ pc = "done"
  /\ text = Str(<<"a","a","a","a","a","a","a","a","a">>)
  /\ cols = 24
  /\ text_array = << <<"a","a","a","a">>, <<"a","a","a","a">>, <<"a">> >>
  /\ Cardinality(PrintsAt("caption")) = 3

\* C8: a call of print_banner completes or raises the width error or the height
\* error, and no other error.
C8_OnlyTwoErrors == err \in {"none", "width", "height"}

\* C9: the effects of a call that passes the width check, in order: the size
\* query, one clear, the banner lines, the caption lines, the fill lines, and
\* then, only after a sleep of the hold duration, a second clear.
C9_Order ==
  /\ \A k \in 1..Len(term) : (term[k].ev = "size") <=> (k = 1)
  /\ Len(term) >= 2 => term[2] = Cleared
  /\ \A k \in Prints : k > 2
  /\ \A j, k \in Prints : j < k => PrintRank(term[j].at) <= PrintRank(term[k].at)
  /\ \A k \in 1..Len(term) :
       term[k].ev = "sleep" =>
         /\ show_for # 0 /\ term[k].secs = show_for
         /\ \A j \in Prints : j < k
         /\ \A j \in 1..Len(term) : term[j].ev = "sleep" => j = k
  /\ \A k \in 1..Len(term) :
       (term[k].ev = "clear" /\ k # 2) =>
         /\ k > 2 /\ term[k - 1].ev = "sleep" /\ k = Len(term)

SecondClear == \E k \in 3..Len(term) : term[k].ev = "clear"

\* C9, as claimed: in every call that passes the width check the effects are so
\* ordered, and the second clear happens if and only if a hold duration is set.
\* (Stated of the calls that complete or raise the height error: what the
\* ValueError of C8 does to a call is left aside.)
C9_SecondClearIffHold ==
  /\ C9_Order
  /\ (pc \in {"done", "raised"} /\ err \in {"none", "height"})
       => (SecondClear <=> show_for # 0)

\* C9, amended: in every call that passes the width check the effects are so
\* ordered; in a call that completes the second clear happens if and only if a
\* hold duration is set, and a call that raises neither sleeps nor clears again.
C9_EffectsOrdered ==
  /\ C9_Order
  /\ pc = "done" =>
       /\ SecondClear <=> show_for # 0
       /\ Cardinality(PrintsAt("banner")) = Len(banner_array)
  /\ pc = "raised" => (~SecondClear /\ \A k \in 1..Len(term) : term[k].ev # "sleep")

C9_Witness ==
  /\ pc = "done" /\ show_for = 3
  /\ PrintsAt("banner") # {} /\ PrintsAt("caption") # {} /\ PrintsAt("fill") # {}
  /\ term[Len(term)] = Cleared /\ term[Len(term) - 1] = Slept(3)

\* C10: with a background colour set, a call that does not raise writes
\* max(0, R - content - 1) full-width fill lines after the content, R - 1 lines
\* in all when the content has at most R - 1 lines and never more than
\* max(R - 1, content); with no background colour it writes no fill line.
C10_FillLines ==
  pc \in {"clear_again", "done"} =>
    LET content == Cardinality(PrintsAt("banner")) + Cardinality(PrintsAt("caption"))
        fill == Cardinality(PrintsAt("fill"))
        rest == rows - content - 1
    IN  /\ content = Len(banner_array) + Len(text_array)
        /\ color_bg = Unset => fill = 0
        /\ color_bg # Unset =>
             /\ fill = (IF rest > 0 THEN rest ELSE 0)
             /\ content <= rows - 1 => Cardinality(Prints) = rows - 1
             /\ Cardinality(Prints) <= (IF rows - 1 > content THEN rows - 1 ELSE content)
             /\ \A k \in PrintsAt("fill") :
                  term[k].line = <<color_bg>> \o Rep(" ", cols) \o <<RESET_COLOR>>

C10_Witness ==
  /\ pc = "done" /\ color_bg # Unset
  /\ Cardinality(PrintsAt("caption")) >= 1
  /\ Cardinality(PrintsAt("fill")) >= 2
  /\ Cardinality(Prints) = rows - 1

\* some player is an executable file of a directory PATH names
PlayerOnSearchPath(c) ==
  /\ environ.has_PATH
  /\ \E k \in 1..Len(environ.PATH) : fs[<<environ.PATH[k], c>>] = "exec"

\* C6: with the sound file missing, or with no known player on the search path,
\* play spawns no child process and returns normally, without raising; with the
\* file missing, it is the missing file that play reports.
C6_DeclinesWithoutRaising ==
  /\ (spc \notin {"idle", "check_file"} /\ sound_path \notin sounds)
       => (spc = "returned" /\ proc = "none" /\ sout = <<NotFound>>)
  /\ (spc \notin {"idle", "check_file", "find_player"}
        /\ \A n \in 1..Len(Players) : ~PlayerOnSearchPath(Players[n]))
       => (spc = "returned" /\ proc = "none")

\* C7: the player spawned is the first of omxplayer, afplay on the search path;
\* a blocking play has returned only once the child has exited.
C7_SpawnsFirstPlayerAndWaits ==
  /\ proc # "none" =>
       /\ sound_path \in sounds
       /\ \E n \in 1..Len(Players) :
            /\ cmd = <<Players[n], sound_path>>
            /\ PlayerOnSearchPath(Players[n])
            /\ \A m \in 1..(n - 1) : ~PlayerOnSearchPath(Players[m])
  /\ (spc = "returned" /\ proc # "none" /\ blocking) => proc = "exited"

\* a play that does not block has returned and its child is still running
C7_Witness ==
  /\ spc = "returned" /\ ~blocking /\ proc = "running"
  /\ cmd = <<"afplay", sound_path>>

====
